---- MODULE Spec2Model ----
(***************************************************************************)
(* Model of crypto/hashes/src/pow_hashers.rs: the FishHash context (light  *)
(* cache, optional lazily filled full dataset), dataset-item derivation,   *)
(* lookup, the mixing kernel and hash, and the cSHAKE-style PowHash.       *)
(*                                                                         *)
(* Buffers are byte sequences, as in the source ([u8; 32/64/128]).  An     *)
(* unsigned integer of the program (u32, u64) is represented by its        *)
(* little-endian bytes, so 32- and 64-bit arithmetic keeps its width and   *)
(* its overflow.  The table sizes and loop counts are scaled down; the     *)
(* external hash primitives (tiny_keccak, blake3, Keccak-f[1600]) are      *)
(* replaced by small deterministic digest functions.                       *)
(*                                                                         *)
(* TLC may evaluate a LET definition or an operator argument again at each *)
(* use.  A value that is used more than once is therefore bound by a set   *)
(* constructor, Only({ e(x) : x \in {v} }), which evaluates v once; it     *)
(* reads as LET x == v IN e(x).                                            *)
(***************************************************************************)
EXTENDS Integers, Sequences, FiniteSets, TLC

VARIABLES
    overflow_checks,  \* build profile: TRUE = overflow checks on (debug), FALSE = off (release)
    phase,            \* "unbuilt" before Context::new, "ready" after
    context,          \* the Context: light_cache and full_dataset
    last,             \* the last call made on the context: its arguments, result and effect
    workers,          \* concurrent lookups in flight on the shared context
    fnv,              \* inputs and result of the last arithmetic step (fnv1, multiply-add)
    pow,              \* inputs and result of the last PowHash computation
    build             \* position and locals of a build_light_cache in progress

vars == <<overflow_checks, phase, context, last, workers, fnv, pow, build>>

----------------------------------------------------------------------------
(* Bounds of the model and scaled program constants.                       *)

\* const LIGHT_CACHE_NUM_ITEMS: u32 = 1179641, scaled down
LIGHT_CACHE_NUM_ITEMS == 3
\* const FULL_DATASET_NUM_ITEMS: u32 = 37748717, scaled down
FULL_DATASET_NUM_ITEMS == 4
\* const FULL_DATASET_ITEM_PARENTS: u32 = 512, scaled down
FULL_DATASET_ITEM_PARENTS == 2
\* const NUM_DATASET_ACCESSES: i32 = 32, scaled down
NUM_DATASET_ACCESSES == 2
LIGHT_CACHE_ROUNDS == 3
\* how far past the end of the dataset the index arguments range
IndexSlack == 1
\* number of distinct header inputs given to hash
NumHeaders == 2
\* number of threads sharing one context
NumWorkers == 2

SIZE_U32 == 4
SIZE_U64 == 8

----------------------------------------------------------------------------
(* Unsigned integers as little-endian byte sequences.                      *)

\* The outcome of a call that panics (unwinds): it yields no value.
Panic == <<>>

\* the element of a singleton set
Only(S) == CHOOSE x \in S : TRUE

\* the sequence f of n elements, each element evaluated once
Materialize(f, n) == SubSeq(f, 1, n)

Zeros(n) == Materialize([i \in 1..n |-> 0], n)

\* bit k (a power of two) of a ^ b
XorBit(a, b, k) == (((a \div k) + (b \div k)) % 2) * k

\* a ^ b on u8
XorByte(a, b) ==
    XorBit(a, b, 1) + XorBit(a, b, 2) + XorBit(a, b, 4) + XorBit(a, b, 8)
    + XorBit(a, b, 16) + XorBit(a, b, 32) + XorBit(a, b, 64) + XorBit(a, b, 128)

\* u ^ v on integers of the same width
XorLE(u, v) ==
    Only({ Materialize([i \in 1..Len(a) |-> XorByte(a[i], b[i])], Len(a)) :
           a \in {u}, b \in {v} })

\* value.to_le_bytes() of a small natural number, truncated to n bytes (`as u32`)
ToLE(value, n) == Materialize([i \in 1..n |-> (value \div (256 ^ (i - 1))) % 256], n)

\* the bytes k.. of u, as a number modulo m
RECURSIVE ModFrom(_, _, _)
ModFrom(u, k, m) ==
    IF k > Len(u) THEN 0
    ELSE (ModFrom(u, k + 1, m) * 256 + u[k]) % m

\* u % m for a modulus m small enough for machine integers
ModLE(u, m) == Only({ ModFrom(a, 1, m) : a \in {u} })

\* column k (0-based) of the schoolbook product of u and v, from row i on
RECURSIVE MulColumn(_, _, _, _)
MulColumn(u, v, k, i) ==
    IF i > k \/ i >= Len(u) THEN 0
    ELSE (IF k - i < Len(v) THEN u[i + 1] * v[k - i + 1] ELSE 0)
         + MulColumn(u, v, k, i + 1)

\* the digits k.. of the full product, of n digits in all
RECURSIVE MulDigits(_, _, _, _, _)
MulDigits(u, v, k, carry, n) ==
    IF k = n THEN <<>>
    ELSE Only({ <<t % 256>> \o MulDigits(u, v, k + 1, t \div 256, n) :
                t \in {MulColumn(u, v, k, 0) + carry} })

\* the exact product of u and v, Len(u) + Len(v) bytes
MulFull(u, v) == Only({ MulDigits(a, b, 0, 0, Len(a) + Len(b)) : a \in {u}, b \in {v} })

RECURSIVE AddDigits(_, _, _, _)
AddDigits(u, v, k, carry) ==
    IF k > Len(u) THEN <<carry>>
    ELSE Only({ <<t % 256>> \o AddDigits(u, v, k + 1, t \div 256) :
                t \in {u[k] + v[k] + carry} })

\* the exact sum of u and v, Len(u) + 1 bytes
AddFull(u, v) == Only({ AddDigits(a, b, 1, 0) : a \in {u}, b \in {v} })

\* The result of the primitive operators `*` and `+` on uN: the low bytes of
\* the exact result; when it does not fit, a panic under overflow checks and
\* the wrapped value without them.
Narrow(exact, n, checks) ==
    Only({ IF checks /\ SubSeq(e, n + 1, Len(e)) # Zeros(Len(e) - n)
           THEN Panic
           ELSE SubSeq(e, 1, n) : e \in {exact} })

MulOp(u, v, checks) == Narrow(MulFull(u, v), Len(v), checks)

AddOp(u, v, checks) == Narrow(AddFull(u, v), Len(v), checks)

----------------------------------------------------------------------------
(* HashData: the word accessors of Hash256, Hash512 and Hash1024.          *)

Hash256_new == Zeros(32)
Hash512_new == Zeros(64)
Hash1024_new == Zeros(128)

get_as_u32(h, index) == SubSeq(h, index * SIZE_U32 + 1, index * SIZE_U32 + SIZE_U32)

set_as_u32(h, index, value) ==
    Only({ Materialize([i \in 1..Len(a) |->
                          IF i > index * SIZE_U32 /\ i <= index * SIZE_U32 + SIZE_U32
                          THEN b[i - index * SIZE_U32] ELSE a[i]], Len(a)) :
           a \in {h}, b \in {value} })

get_as_u64(h, index) == SubSeq(h, index * SIZE_U64 + 1, index * SIZE_U64 + SIZE_U64)

set_as_u64(h, index, value) ==
    Only({ Materialize([i \in 1..Len(a) |->
                          IF i > index * SIZE_U64 /\ i <= index * SIZE_U64 + SIZE_U64
                          THEN b[i - index * SIZE_U64] ELSE a[i]], Len(a)) :
           a \in {h}, b \in {value} })

\* impl BitXor<&Hash512> for &Hash512
bitxor(a, b) == XorLE(a, b)

from_512s(first, second) == first \o second

\* the buffer made of the n words of w bytes each of the sequence words
Concat(words, n, w) ==
    Only({ Materialize([k \in 1..(n * w) |-> ws[((k - 1) \div w) + 1][((k - 1) % w) + 1]],
                       n * w) : ws \in {words} })

\* the sequence of the n words f[0], ..., f[n-1]
Words(f, n) == Materialize([j \in 1..n |-> f[j - 1]], n)

----------------------------------------------------------------------------
(* The external hash primitives.  Each is a fixed deterministic function   *)
(* of its input bytes; the model replaces it by a small digest: the input  *)
(* is absorbed into an accumulator, which is then expanded to the output   *)
(* length.  The primitives differ in the accumulator's initial value.  An  *)
(* output whose first eight bytes are zero (and whose other bytes are not) *)
(* occurs for one accumulator value in five.                               *)

\* the weighted sum of the bytes lo..hi of data (position-sensitive)
RECURSIVE Absorb(_, _, _)
Absorb(data, lo, hi) ==
    IF lo > hi THEN 0
    ELSE IF lo = hi THEN (data[lo] + 1) * (((lo * lo) % 17) + 1)
    ELSE Absorb(data, lo, (lo + hi) \div 2) + Absorb(data, ((lo + hi) \div 2) + 1, hi)

Squeeze(acc, n) ==
    Materialize([i \in 1..n |->
                    IF i <= 8 THEN (IF acc % 5 = 0 THEN 0 ELSE (acc * i + 3) % 256)
                    ELSE (acc * i + 29 * ((i - 1) \div 8) + 7) % 256], n)

Digest(data, tag, n) ==
    Only({ Squeeze(acc, n) : acc \in { Only({ (Absorb(d, 1, Len(d)) + tag) % 251 :
                                              d \in {data} }) } })

\* tiny_keccak::Keccak::v512(): update(data), finalize(out), out of 64 bytes
keccak(data) == Digest(data, 14, 64)

keccak_in_place(data) == keccak(data)

\* blake3::Hasher: update(data), finalize_xof().fill(out), out of n bytes;
\* blake3::hash(data) is its first 32 bytes
blake3_xof(data, n) == Digest(data, 101, n)

blake3_hash32(data) == blake3_xof(data, 32)

\* keccak::f1600 / KeccakF1600 on the 200 bytes of the state
f1600(state) == Digest(state, 61, 200)

----------------------------------------------------------------------------
(* FishHash: fnv1, the light cache, dataset items.                         *)

\* const FNV_PRIME: u32 = 0x01000193
FNV_PRIME == <<147, 1, 0, 1>>

\* const SEED: Hash256
SEED ==
    <<235, 1, 99, 174, 242, 171, 28, 90, 102, 49, 12, 28, 20, 214, 15, 66,
      85, 169, 179, 155, 14, 223, 38, 83, 152, 68, 241, 23, 173, 103, 33, 25>>

\* (u * FNV_PRIME) ^ v, with the primitive `*` of u32; checks: whether the
\* build has overflow checks (here and in every operator below)
fnv1(u, v, checks) ==
    Only({ IF m = Panic THEN Panic ELSE XorLE(m, v) : m \in {MulOp(u, FNV_PRIME, checks)} })

fnv1_512(u, v, checks) ==
    Only({ IF \E i \in DOMAIN r : r[i] = Panic THEN Panic
           ELSE Concat(r, 64 \div SIZE_U32, SIZE_U32) :
           r \in { Only({ Words([i \in 0..(64 \div SIZE_U32 - 1) |->
                                    fnv1(get_as_u32(a, i), get_as_u32(b, i), checks)],
                                64 \div SIZE_U32) : a \in {u}, b \in {v} }) } })

\* the chained fill of build_light_cache: cache[0] = keccak(SEED), then
\* cache[i] = keccak(cache[i-1])
RECURSIVE ChainFill(_)
ChainFill(cache) ==
    IF Len(cache) = LIGHT_CACHE_NUM_ITEMS THEN cache
    ELSE Only({ ChainFill(c) : c \in {Append(cache, keccak_in_place(cache[Len(cache)]))} })

\* u32::wrapping_add and u32::wrapping_sub(1) (the sum with 2^32 - 1)
wrapping_add(u, v) == Narrow(AddFull(u, v), SIZE_U32, FALSE)
wrapping_sub_1(u) == wrapping_add(u, <<255, 255, 255, 255>>)

\* first index of a step: t % LIGHT_CACHE_NUM_ITEMS, t the first u32 of cache[i]
FirstIndex(cache, i) == ModLE(get_as_u32(cache[i + 1], 0), LIGHT_CACHE_NUM_ITEMS)

\* faulty variant: the second index is the next entry, not the previous one
SecondIndex_Next(i) == (i + 1) % LIGHT_CACHE_NUM_ITEMS

\* second index of a step:
\* LIGHT_CACHE_NUM_ITEMS.wrapping_add(i.wrapping_sub(1)) % LIGHT_CACHE_NUM_ITEMS
SecondIndex(i) ==
    ModLE(wrapping_add(ToLE(LIGHT_CACHE_NUM_ITEMS, SIZE_U32),
                       wrapping_sub_1(ToLE(i, SIZE_U32))),
          LIGHT_CACHE_NUM_ITEMS)

\* one step of a round of build_light_cache, at index i (0-based), in place
CacheStep(cache, i) ==
    LET v == FirstIndex(cache, i)
        w == SecondIndex(i)
    IN  [cache EXCEPT ![i + 1] = keccak(bitxor(cache[v + 1], cache[w + 1]))]

RECURSIVE CacheRounds(_, _, _)
CacheRounds(cache, round, i) ==
    IF round = LIGHT_CACHE_ROUNDS THEN cache
    ELSE IF i = LIGHT_CACHE_NUM_ITEMS THEN CacheRounds(cache, round + 1, 0)
    ELSE Only({ CacheRounds(c, round, i + 1) : c \in {CacheStep(cache, i)} })

build_light_cache ==
    Only({ CacheRounds(c, 0, 0) : c \in {ChainFill(<<keccak(SEED)>>)} })

\* Option<Box<[Hash1024]>>
None == [is_some |-> FALSE, items |-> <<>>]
Some(items) == [is_some |-> TRUE, items |-> items]

\* faulty variant: the full dataset is never allocated (as in PowFishHash::new)
Context_new_Light(full) == [light_cache |-> build_light_cache, full_dataset |-> None]

Context_new(full) ==
    [light_cache  |-> build_light_cache,
     full_dataset |-> IF full
                      THEN Some(Materialize([i \in 1..FULL_DATASET_NUM_ITEMS |-> Hash1024_new],
                                            FULL_DATASET_NUM_ITEMS))
                      ELSE None]

\* one parent of calculate_dataset_item_1024: <<mix0, mix1>> after parent j
ParentStep(light_cache, seed0, seed1, mix0, mix1, j, checks) ==
    LET num_words == 64 \div SIZE_U32
    IN  Only({ IF t0 = Panic \/ t1 = Panic THEN Panic
               ELSE Only({ IF n0 = Panic \/ n1 = Panic THEN Panic ELSE <<n0, n1>> :
                      n0 \in {fnv1_512(mix0, light_cache[ModLE(t0, LIGHT_CACHE_NUM_ITEMS) + 1],
                                       checks)},
                      n1 \in {fnv1_512(mix1, light_cache[ModLE(t1, LIGHT_CACHE_NUM_ITEMS) + 1],
                                       checks)} }) :
               t0 \in {fnv1(XorLE(seed0, ToLE(j, 4)), get_as_u32(mix0, j % num_words), checks)},
               t1 \in {fnv1(XorLE(seed1, ToLE(j, 4)), get_as_u32(mix1, j % num_words), checks)} })

\* the loop over the parents of calculate_dataset_item_1024, from parent j on
RECURSIVE ParentsLoop(_, _, _, _, _, _)
ParentsLoop(light_cache, seed0, seed1, mix, j, checks) ==
    IF j = FULL_DATASET_ITEM_PARENTS \/ mix = Panic THEN mix
    ELSE Only({ ParentsLoop(light_cache, seed0, seed1, m, j + 1, checks) :
                m \in {ParentStep(light_cache, seed0, seed1, mix[1], mix[2], j, checks)} })

DeriveItem(light_cache, index, checks) ==
    Only({ IF seed1 = Panic THEN Panic
           ELSE Only({ IF mixed = Panic THEN Panic
                       ELSE from_512s(keccak_in_place(mixed[1]), keccak_in_place(mixed[2])) :
                  mixed \in { Only({ ParentsLoop(light_cache, seed0, seed1, <<mix0, mix1>>, 0,
                                                 checks) :
                     mix0 \in { Only({ keccak_in_place(
                                           set_as_u32(c0, 0, XorLE(get_as_u32(c0, 0), seed0))) :
                                c0 \in {light_cache[ModLE(seed0, LIGHT_CACHE_NUM_ITEMS) + 1]} }) },
                     mix1 \in { Only({ keccak_in_place(
                                           set_as_u32(c1, 0, XorLE(get_as_u32(c1, 0), seed1))) :
                                c1 \in {light_cache[ModLE(seed1, LIGHT_CACHE_NUM_ITEMS) + 1]} }) }
                     }) } }) :
           seed0 \in {ToLE(index * 2, 4)},
           seed1 \in {AddOp(ToLE(index * 2, 4), ToLE(1, 4), checks)} })

\* DeriveItem is a pure function: its values on the light cache that
\* Context::new builds are tabulated, per build profile, for the index
\* arguments the specifications use.
ItemTable ==
    <<Materialize([k \in 1..(FULL_DATASET_NUM_ITEMS + IndexSlack) |->
                      DeriveItem(build_light_cache, k - 1, FALSE)],
                  FULL_DATASET_NUM_ITEMS + IndexSlack),
      Materialize([k \in 1..(FULL_DATASET_NUM_ITEMS + IndexSlack) |->
                      DeriveItem(build_light_cache, k - 1, TRUE)],
                  FULL_DATASET_NUM_ITEMS + IndexSlack)>>

calculate_dataset_item_1024(light_cache, index, checks) ==
    IF index < FULL_DATASET_NUM_ITEMS + IndexSlack /\ light_cache = build_light_cache
    THEN ItemTable[IF checks THEN 2 ELSE 1][index + 1]
    ELSE DeriveItem(light_cache, index, checks)

\* faulty variant: the test is dropped, every lookup derives and stores
IsUnfilled_Always(item) == TRUE

\* faulty variant: the entry counts as unfilled only when all its 128 bytes are zero
IsUnfilled_AllZero(item) == item = Hash1024_new

\* item.get_as_u64(0) == 0, the test of lookup for an unfilled entry
IsUnfilled(item) == get_as_u64(item, 0) = Zeros(SIZE_U64)

\* faulty variant: the item is stored one slot further (off by one)
StoreItem_NextSlot(c, index, new) ==
    [c EXCEPT !.full_dataset.items[((index + 1) % Len(c.full_dataset.items)) + 1] = new]

\* faulty variant: a torn store, only the first 64 bytes of the entry are replaced
StoreItem_Torn(c, index, new) ==
    [c EXCEPT !.full_dataset.items[index + 1] =
                  SubSeq(new, 1, 64) \o SubSeq(c.full_dataset.items[index + 1], 65, 128)]

\* *item = new, with item = &mut dataset[index]: the whole entry is replaced
StoreItem(c, index, new) == [c EXCEPT !.full_dataset.items[index + 1] = new]

\* *item, the copy of the entry that lookup returns
LoadItem(c, index) == c.full_dataset.items[index + 1]

\* faulty variant: the fill branch returns the copy of the entry made before the store
lookup_StaleCopy(c, index, checks) ==
    IF c.full_dataset.is_some
    THEN IF index >= Len(c.full_dataset.items)
         THEN [context |-> c, ret |-> Panic, branch |-> "bounds"]
         ELSE
         IF IsUnfilled(c.full_dataset.items[index + 1])
         THEN Only({ IF new = Panic
                     THEN [context |-> c, ret |-> Panic, branch |-> "fill"]
                     ELSE [context |-> StoreItem(c, index, new), ret |-> LoadItem(c, index),
                           branch |-> "fill"] :
                     new \in {calculate_dataset_item_1024(c.light_cache, index, checks)} })
         ELSE [context |-> c, ret |-> LoadItem(c, index), branch |-> "stored"]
    ELSE [context |-> c,
          ret |-> calculate_dataset_item_1024(c.light_cache, index, checks),
          branch |-> "recompute"]

\* faulty variant: without a full dataset, lookup allocates one and memoizes in it
lookup_AllocOnDemand(c, index, checks) ==
    Only({ IF c.full_dataset.is_some \/ new = Panic \/ index >= FULL_DATASET_NUM_ITEMS
           THEN [context |-> c, ret |-> new, branch |-> "recompute"]
           ELSE [context |-> [c EXCEPT !.full_dataset =
                     Some([i \in 1..FULL_DATASET_NUM_ITEMS |->
                              IF i = index + 1 THEN new ELSE Hash1024_new])],
                 ret |-> new, branch |-> "recompute"] :
           new \in {calculate_dataset_item_1024(c.light_cache, index, checks)} })

\* The result of lookup: the context after the call, the value returned (or
\* Panic) and the branch taken.
lookup(c, index, checks) ==
    IF c.full_dataset.is_some
    THEN IF index >= Len(c.full_dataset.items)
         THEN [context |-> c, ret |-> Panic, branch |-> "bounds"]
         ELSE
         IF IsUnfilled(c.full_dataset.items[index + 1])
         THEN Only({ IF new = Panic
                     THEN [context |-> c, ret |-> Panic, branch |-> "fill"]
                     ELSE Only({ [context |-> d, ret |-> LoadItem(d, index),
                                  branch |-> "fill"] :
                                 d \in {StoreItem(c, index, new)} }) :
                     new \in {calculate_dataset_item_1024(c.light_cache, index, checks)} })
         ELSE [context |-> c, ret |-> LoadItem(c, index), branch |-> "stored"]
    ELSE [context |-> c,
          ret |-> calculate_dataset_item_1024(c.light_cache, index, checks),
          branch |-> "recompute"]

----------------------------------------------------------------------------
(* The mixing kernel and hash.                                             *)

\* fetch0.get_as_u64(j) * fetch1.get_as_u64(j) + fetch2.get_as_u64(j), with
\* the primitive `*` and `+` of u64
MulAdd(a, b, c, checks) ==
    Only({ IF prod = Panic THEN Panic ELSE AddOp(prod, c, checks) :
           prod \in {MulOp(a, b, checks)} })

\* the arithmetic of one iteration of fishhash_kernel: the new mix from the
\* old one and the three items fetched (Panic when a step panics)
MixStep(mix, fetch0, f1, f2, checks) ==
    Only({ IF \E j \in DOMAIN w1 : w1[j] = Panic THEN Panic
           ELSE Only({ IF \E j \in DOMAIN m : m[j] = Panic THEN Panic
                       ELSE Concat(m, 16, SIZE_U64) :
                  m \in { Only({ Words([j \in 0..15 |->
                              MulAdd(get_as_u64(fetch0, j), get_as_u64(fetch1, j),
                                     get_as_u64(fetch2, j), checks)], 16) :
                          fetch1 \in {Concat(w1, 32, SIZE_U32)},
                          fetch2 \in {Concat(w2, 32, SIZE_U32)} }) } }) :
           w1 \in {Words([j \in 0..31 |->
                            fnv1(get_as_u32(mix, j), get_as_u32(f1, j), checks)], 32)},
           w2 \in {Words([j \in 0..31 |->
                            XorLE(get_as_u32(mix, j), get_as_u32(f2, j))], 32)} })

\* one of the NUM_DATASET_ACCESSES iterations of fishhash_kernel: the context
\* and the mix after it (Panic when a lookup or an arithmetic step panics)
KernelRound(c, mix, checks) ==
    LET p0 == ModLE(get_as_u32(mix, 0), FULL_DATASET_NUM_ITEMS)
        p1 == ModLE(get_as_u32(mix, 4), FULL_DATASET_NUM_ITEMS)
        p2 == ModLE(get_as_u32(mix, 8), FULL_DATASET_NUM_ITEMS)
    IN  Only({ IF l0.ret = Panic THEN [context |-> l0.context, mix |-> Panic]
               ELSE Only({ IF l1.ret = Panic THEN [context |-> l1.context, mix |-> Panic]
                   ELSE Only({ IF l2.ret = Panic THEN [context |-> l2.context, mix |-> Panic]
                               ELSE [context |-> l2.context,
                                     mix |-> MixStep(mix, l0.ret, l1.ret, l2.ret, checks)] :
                               l2 \in {lookup(l1.context, p2, checks)} }) :
                   l1 \in {lookup(l0.context, p1, checks)} }) :
               l0 \in {lookup(c, p0, checks)} })

RECURSIVE KernelLoop(_, _, _)
KernelLoop(k, round, checks) ==
    IF round = NUM_DATASET_ACCESSES \/ k.mix = Panic THEN k
    ELSE Only({ KernelLoop(r, round + 1, checks) :
                r \in {KernelRound(k.context, k.mix, checks)} })

\* the collapse of the mix into 32 bytes
Collapse(mix, checks) ==
    Only({ IF \E k \in DOMAIN h : h[k] = Panic THEN Panic ELSE Concat(h, 8, SIZE_U32) :
           h \in {Words([k \in 0..7 |->
                    Only({ IF h1 = Panic THEN Panic
                           ELSE Only({ IF h2 = Panic THEN Panic
                                       ELSE fnv1(h2, get_as_u32(mix, 4 * k + 3), checks) :
                                       h2 \in {fnv1(h1, get_as_u32(mix, 4 * k + 2), checks)} }) :
                           h1 \in {fnv1(get_as_u32(mix, 4 * k), get_as_u32(mix, 4 * k + 1),
                                        checks)} })], 8)} })

\* The result of fishhash_kernel: the context after the call and the Hash256
\* returned (or Panic).
fishhash_kernel(c, seed, checks) ==
    Only({ [context |-> k.context,
            ret |-> IF k.mix = Panic THEN Panic ELSE Collapse(k.mix, checks)] :
           k \in {KernelLoop([context |-> c, mix |-> from_512s(seed, seed)], 0, checks)} })

\* The result of PowFishHash::hash: the context after the call and the 32
\* bytes written to output (or Panic).
hash(c, header, checks) ==
    Only({ Only({ [context |-> k.context,
                   ret |-> IF k.ret = Panic THEN Panic ELSE blake3_hash32(seed \o k.ret)] :
                  k \in {fishhash_kernel(c, seed, checks)} }) :
           seed \in {blake3_xof(header, 64)} })

----------------------------------------------------------------------------
(* The sequential specification: one owner of the context calls            *)
(* Context::new, then lookup, calculate_dataset_item_1024 and hash.        *)

Indices == 0..(FULL_DATASET_NUM_ITEMS + IndexSlack - 1)

Headers == {<<h, 2 * h + 1, 42>> : h \in 1..NumHeaders}

NoContext == [light_cache |-> <<>>, full_dataset |-> None]

NoCall == [op |-> "none", index |-> 0, header |-> <<>>, full |-> FALSE,
           ret |-> Panic, branch |-> "none", before |-> NoContext]

NoWorkers == <<>>
NoFnv == [op |-> "none", u |-> <<>>, v |-> <<>>, w |-> <<>>, ret |-> Panic]
NoPow == [op |-> "none", pre_pow_hash |-> <<>>, timestamp |-> <<>>, nonce |-> <<>>,
          ret |-> <<>>]
NoStep == [round |-> 0, i |-> 0, before |-> <<>>, pass_start |-> <<>>, written |-> <<>>]
NoBuild == [pc |-> "none", full |-> FALSE, round |-> 0, i |-> 0, v |-> 0, w |-> 0,
            x |-> <<>>, pass_start |-> <<>>, written |-> <<>>, order |-> <<>>,
            step |-> NoStep]

Init ==
    /\ overflow_checks \in BOOLEAN
    /\ phase = "unbuilt"
    /\ context = NoContext
    /\ last = NoCall
    /\ workers = NoWorkers
    /\ fnv = NoFnv
    /\ pow = NoPow
    /\ build = NoBuild

New(full) ==
    /\ phase = "unbuilt"
    /\ phase' = "ready"
    /\ context' = Context_new(full)
    /\ last' = [NoCall EXCEPT !.op = "new", !.full = full, !.before = context]
    /\ UNCHANGED <<overflow_checks, workers, fnv, pow, build>>

Lookup(index) ==
    /\ phase = "ready"
    /\ \E r \in {lookup(context, index, overflow_checks)} :
           /\ context' = r.context
           /\ last' = [NoCall EXCEPT !.op = "lookup", !.index = index, !.ret = r.ret,
                                     !.branch = r.branch, !.before = context]
    /\ UNCHANGED <<overflow_checks, phase, workers, fnv, pow, build>>

Hash(header) ==
    /\ phase = "ready"
    /\ \E r \in {hash(context, header, overflow_checks)} :
           /\ context' = r.context
           /\ last' = [NoCall EXCEPT !.op = "hash", !.header = header, !.ret = r.ret,
                                     !.before = context]
    /\ UNCHANGED <<overflow_checks, phase, workers, fnv, pow, build>>

Next ==
    \/ \E full \in BOOLEAN : New(full)
    \/ \E index \in Indices : Lookup(index)
    \/ \E header \in Headers : Hash(header)

Spec == Init /\ [][Next]_vars

----------------------------------------------------------------------------
(* The concurrent specification: NumWorkers threads run lookup on one      *)
(* shared context that has a full dataset.  Each thread takes the steps of *)
(* lookup one at a time: the test of the first word, the derivation and    *)
(* the store of the whole entry (one atomic step), and the copy of the     *)
(* entry it returns, read in two halves.                                   *)

WorkerIds == 1..NumWorkers

IdleWorker == [pc |-> "idle", index |-> 0, ret |-> <<>>, lost |-> FALSE]

ConcInit ==
    /\ overflow_checks \in BOOLEAN
    /\ phase = "ready"
    /\ context = Context_new(TRUE)
    /\ last = NoCall
    /\ workers = [w \in WorkerIds |-> IdleWorker]
    /\ fnv = NoFnv
    /\ pow = NoPow
    /\ build = NoBuild

\* a thread calls lookup(context, index), index < FULL_DATASET_NUM_ITEMS
Call(w, index) ==
    /\ workers[w].pc \in {"idle", "done"}
    /\ workers' = [workers EXCEPT ![w] = [IdleWorker EXCEPT !.pc = "check", !.index = index]]
    /\ UNCHANGED <<overflow_checks, phase, context, last, fnv, pow, build>>

\* if item.get_as_u64(0) == 0
Check(w) ==
    /\ workers[w].pc = "check"
    /\ workers' = [workers EXCEPT ![w].pc =
                      IF IsUnfilled(LoadItem(context, workers[w].index))
                      THEN "fill" ELSE "read"]
    /\ UNCHANGED <<overflow_checks, phase, context, last, fnv, pow, build>>

\* *item = calculate_dataset_item_1024(..): `lost` records that the entry had
\* been filled by another thread since this thread's test
Fill(w) ==
    /\ workers[w].pc = "fill"
    /\ \E new \in {calculate_dataset_item_1024(context.light_cache, workers[w].index,
                                               overflow_checks)} :
          IF new = Panic
          THEN /\ workers' = [workers EXCEPT ![w].pc = "panicked"]
               /\ UNCHANGED context
          ELSE /\ workers' = [workers EXCEPT
                                 ![w].pc = "read",
                                 ![w].lost = ~IsUnfilled(LoadItem(context, workers[w].index))]
               /\ context' = StoreItem(context, workers[w].index, new)
    /\ UNCHANGED <<overflow_checks, phase, last, fnv, pow, build>>

\* *item: the first 64 bytes of the copy
ReadLow(w) ==
    /\ workers[w].pc = "read"
    /\ workers' = [workers EXCEPT
                      ![w].pc = "read2",
                      ![w].ret = SubSeq(LoadItem(context, workers[w].index), 1, 64)]
    /\ UNCHANGED <<overflow_checks, phase, context, last, fnv, pow, build>>

\* *item: the last 64 bytes of the copy; lookup returns
ReadHigh(w) ==
    /\ workers[w].pc = "read2"
    /\ workers' = [workers EXCEPT
                      ![w].pc = "done",
                      ![w].ret = workers[w].ret
                                 \o SubSeq(LoadItem(context, workers[w].index), 65, 128)]
    /\ UNCHANGED <<overflow_checks, phase, context, last, fnv, pow, build>>

ConcNext ==
    \E w \in WorkerIds :
        \/ \E index \in 0..(FULL_DATASET_NUM_ITEMS - 1) : Call(w, index)
        \/ Check(w)
        \/ Fill(w)
        \/ ReadLow(w)
        \/ ReadHigh(w)

SpecConc == ConcInit /\ [][ConcNext]_vars

----------------------------------------------------------------------------
(* The arithmetic steps on their own: fnv1 on u32 and the multiply-add of  *)
(* the kernel on u64, on operands around the word boundaries.              *)

U32Samples ==
    {<<0, 0, 0, 0>>, <<1, 0, 0, 0>>, <<255, 0, 0, 0>>, <<0, 1, 0, 0>>,
     <<147, 1, 0, 1>>, <<255, 255, 255, 127>>, <<0, 0, 0, 128>>, <<255, 255, 255, 255>>}

U64Samples ==
    {<<0, 0, 0, 0, 0, 0, 0, 0>>, <<1, 0, 0, 0, 0, 0, 0, 0>>,
     <<255, 255, 255, 255, 0, 0, 0, 0>>, <<0, 0, 0, 0, 1, 0, 0, 0>>,
     <<255, 255, 255, 255, 255, 255, 255, 255>>}

ArithInit ==
    /\ overflow_checks \in BOOLEAN
    /\ phase = "unbuilt"
    /\ context = NoContext
    /\ last = NoCall
    /\ workers = NoWorkers
    /\ fnv = NoFnv
    /\ pow = NoPow
    /\ build = NoBuild

Fnv1Call(u, v) ==
    /\ fnv.op = "none"
    /\ fnv' = [NoFnv EXCEPT !.op = "fnv1", !.u = u, !.v = v,
                            !.ret = fnv1(u, v, overflow_checks)]
    /\ UNCHANGED <<overflow_checks, phase, context, last, workers, pow, build>>

MulAddCall(a, b, c) ==
    /\ fnv.op = "none"
    /\ fnv' = [NoFnv EXCEPT !.op = "muladd", !.u = a, !.v = b, !.w = c,
                            !.ret = MulAdd(a, b, c, overflow_checks)]
    /\ UNCHANGED <<overflow_checks, phase, context, last, workers, pow, build>>

ArithNext ==
    \/ \E u \in U32Samples, v \in U32Samples : Fnv1Call(u, v)
    \/ \E a \in U64Samples, b \in U64Samples, c \in U64Samples : MulAddCall(a, b, c)

SpecArith == ArithInit /\ [][ArithNext]_vars

----------------------------------------------------------------------------
(* PowHash: the precomputed cSHAKE256("ProofOfWorkHash") state, new and    *)
(* finalize_with_nonce.  The [u64; 25] state is its 200 bytes, each word   *)
(* little-endian.                                                          *)

\* const INITIAL_STATE: [u64; 25]
INITIAL_STATE ==
    <<61, 216, 246, 161, 13, 255, 60, 17,
      60, 126, 2, 183, 85, 136, 191, 41,
      210, 68, 251, 14, 114, 46, 95, 30,
      160, 105, 152, 245, 163, 164, 165, 27,
      101, 45, 94, 135, 202, 175, 47, 123,
      70, 226, 220, 41, 214, 97, 239, 74,
      16, 91, 65, 173, 30, 152, 58, 24,
      156, 194, 155, 120, 12, 246, 107, 119,
      64, 49, 102, 136, 51, 241, 235, 248,
      240, 95, 40, 67, 60, 28, 101, 46,
      10, 74, 241, 64, 5, 7, 150, 15,
      82, 145, 41, 91, 135, 103, 227, 68,
      21, 55, 177, 37, 164, 241, 112, 236,
      137, 218, 233, 130, 143, 93, 200, 230,
      35, 178, 180, 133, 31, 96, 26, 178,
      70, 106, 163, 100, 144, 84, 133, 52,
      26, 133, 47, 122, 28, 221, 6, 15,
      66, 177, 59, 86, 29, 2, 162, 193,
      228, 104, 22, 69, 228, 229, 29, 186,
      141, 95, 9, 5, 65, 87, 2, 209,
      74, 207, 206, 155, 132, 78, 202, 137,
      219, 46, 116, 168, 39, 148, 176, 72,
      114, 82, 139, 231, 156, 206, 252, 177,
      188, 165, 175, 130, 207, 41, 17, 93,
      131, 67, 130, 111, 120, 124, 185, 2>>

\* the state with the 8-byte value XORed into word index
XorWord(state, index, value) ==
    set_as_u64(state, index, XorLE(get_as_u64(state, index), value))

\* PowHash::new: the words of pre_pow_hash are XORed into words 0..3, the
\* timestamp into word 4
PowHash_new(pre_pow_hash, timestamp) ==
    Only({ XorWord(s4, 4, timestamp) :
           s4 \in {XorLE(SubSeq(INITIAL_STATE, 1, 32), pre_pow_hash)
                   \o SubSeq(INITIAL_STATE, 33, 200)} })

\* b3::blake3_hash: words 0..3 become the BLAKE3 hash of the state's bytes,
\* words 4..24 become zero
blake3_hash(state) == blake3_hash32(state) \o Zeros(200 - 32)

\* PowHash::finalize_with_nonce: the nonce is XORed into word 9, the state
\* is hashed, and the first four words are returned
finalize_with_nonce(self, nonce) ==
    Only({ SubSeq(blake3_hash(s9), 1, 4 * SIZE_U64) : s9 \in {XorWord(self, 9, nonce)} })

PrePowHashes == {Materialize([i \in 1..32 |-> b], 32) : b \in {0, 1, 42, 255}}

Timestamps ==
    {<<0, 0, 0, 0, 0, 0, 0, 0>>, <<1, 0, 0, 0, 0, 0, 0, 0>>, <<82, 201, 248, 67, 1, 0, 0, 0>>,
     <<0, 0, 0, 0, 0, 0, 0, 128>>, <<255, 255, 255, 255, 255, 255, 255, 255>>}

Nonces ==
    {<<0, 0, 0, 0, 0, 0, 0, 0>>, <<1, 0, 0, 0, 0, 0, 0, 0>>, <<48, 101, 198, 25, 0, 0, 0, 0>>,
     <<0, 1, 0, 0, 0, 0, 0, 0>>, <<0, 0, 0, 0, 0, 0, 0, 128>>,
     <<255, 255, 255, 255, 255, 255, 255, 255>>}

PowCall(pre_pow_hash, timestamp, nonce) ==
    /\ pow.op = "none"
    /\ pow' = [op |-> "pow", pre_pow_hash |-> pre_pow_hash, timestamp |-> timestamp,
               nonce |-> nonce,
               ret |-> finalize_with_nonce(PowHash_new(pre_pow_hash, timestamp), nonce)]
    /\ UNCHANGED <<overflow_checks, phase, context, last, workers, fnv, build>>

PowNext ==
    \E pre_pow_hash \in PrePowHashes, timestamp \in Timestamps, nonce \in Nonces :
        PowCall(pre_pow_hash, timestamp, nonce)

SpecPow == ArithInit /\ [][PowNext]_vars

----------------------------------------------------------------------------
(* The construction specification: Context::new(full) step by step, the  *)
(* chained fill and then the rounds of build_light_cache, each step of a   *)
(* round as its three statements (indices, XOR, hash into cache[i]).       *)
(* build.order, build.pass_start, build.written and build.step record      *)
(* what the steps did.                                                     *)

BuildInit ==
    /\ overflow_checks \in BOOLEAN
    /\ phase = "building"
    /\ context = [light_cache |-> Materialize([i \in 1..LIGHT_CACHE_NUM_ITEMS |-> Hash512_new],
                                              LIGHT_CACHE_NUM_ITEMS),
                  full_dataset |-> None]
    /\ last = NoCall
    /\ workers = NoWorkers
    /\ fnv = NoFnv
    /\ pow = NoPow
    /\ \E full \in BOOLEAN : build = [NoBuild EXCEPT !.pc = "seed", !.full = full]

\* the position after the chained fill has written entry i - 1
AfterChain(b, cache, i) ==
    IF i < LIGHT_CACHE_NUM_ITEMS
    THEN [b EXCEPT !.pc = "chain", !.i = i]
    ELSE [b EXCEPT !.pc = "pick", !.round = 0, !.i = 0, !.pass_start = cache]

\* keccak(&mut item.0, &SEED.0); cache[0] = item
SeedItem ==
    /\ build.pc = "seed"
    /\ \E c \in {[context.light_cache EXCEPT ![1] = keccak(SEED)]} :
           /\ context' = [context EXCEPT !.light_cache = c]
           /\ build' = AfterChain(build, c, 1)
    /\ UNCHANGED <<overflow_checks, phase, last, workers, fnv, pow>>

\* keccak_in_place(&mut item.0); *cache_item = item, for the next entry
ChainItem ==
    /\ build.pc = "chain"
    /\ \E c \in {[context.light_cache EXCEPT
                     ![build.i + 1] = keccak_in_place(context.light_cache[build.i])]} :
           /\ context' = [context EXCEPT !.light_cache = c]
           /\ build' = AfterChain(build, c, build.i + 1)
    /\ UNCHANGED <<overflow_checks, phase, last, workers, fnv, pow>>

\* let t = cache[i].get_as_u32(0); let v = t % N; let w = ..
PickIndices ==
    /\ build.pc = "pick"
    /\ build' = [build EXCEPT !.pc = "xor",
                              !.v = FirstIndex(context.light_cache, build.i),
                              !.w = SecondIndex(build.i)]
    /\ UNCHANGED <<overflow_checks, phase, context, last, workers, fnv, pow>>

\* let x = &cache[v] ^ &cache[w]
XorItems ==
    /\ build.pc = "xor"
    /\ build' = [build EXCEPT !.pc = "write",
                              !.x = bitxor(context.light_cache[build.v + 1],
                                           context.light_cache[build.w + 1])]
    /\ UNCHANGED <<overflow_checks, phase, context, last, workers, fnv, pow>>

\* the position after step i of a round has written cache[i]
AfterStep(b, cache, item) ==
    LET s == [round |-> b.round, i |-> b.i, before |-> context.light_cache,
              pass_start |-> b.pass_start, written |-> b.written]
        o == Append(b.order, <<b.round, b.i>>)
    IN  IF b.i + 1 < LIGHT_CACHE_NUM_ITEMS
        THEN [b EXCEPT !.pc = "pick", !.i = b.i + 1, !.step = s, !.order = o,
                       !.written = Append(b.written, item)]
        ELSE [b EXCEPT !.pc = IF b.round + 1 < LIGHT_CACHE_ROUNDS THEN "pick" ELSE "alloc",
                       !.round = b.round + 1, !.i = 0, !.step = s, !.order = o,
                       !.pass_start = cache, !.written = <<>>]

\* keccak(&mut cache[i].0, &x.0), and the loop counters move on
WriteItem ==
    /\ build.pc = "write"
    /\ \E item \in {keccak(build.x)} :
         \E c \in {[context.light_cache EXCEPT ![build.i + 1] = item]} :
           /\ context' = [context EXCEPT !.light_cache = c]
           /\ build' = AfterStep(build, c, item)
    /\ UNCHANGED <<overflow_checks, phase, last, workers, fnv, pow>>

\* let full_dataset = if full { Some(vec![Hash1024::new(); ..]) } else { None }
AllocDataset ==
    /\ build.pc = "alloc"
    /\ context' = [context EXCEPT !.full_dataset = Context_new(build.full).full_dataset]
    /\ phase' = "ready"
    /\ build' = [build EXCEPT !.pc = "done"]
    /\ UNCHANGED <<overflow_checks, last, workers, fnv, pow>>

BuildNext ==
    \/ SeedItem
    \/ ChainItem
    \/ PickIndices
    \/ XorItems
    \/ WriteItem
    \/ AllocDataset

SpecBuild == BuildInit /\ [][BuildNext]_vars

----------------------------------------------------------------------------
(* Properties.                                                              *)

\* the context c without its full dataset
Light(c) == [c EXCEPT !.full_dataset = None]

\* the first 64-bit word of an item is zero
FirstWordZero(item) == get_as_u64(item, 0) = Zeros(SIZE_U64)

\* the entries of the full dataset of c
Items(c) == c.full_dataset.items

\* C1: lookup equivalence.  Whatever lookups and hashes came before, a
\* lookup of an index below FULL_DATASET_NUM_ITEMS on a context that has a
\* full dataset returns what lookup returns on the context with the same
\* light cache and no full dataset, which is the derived item.
C1_LookupEquivalence ==
    (last.op = "lookup" /\ last.before.full_dataset.is_some
     /\ last.index < FULL_DATASET_NUM_ITEMS)
    => /\ last.ret = lookup(Light(last.before), last.index, overflow_checks).ret
       /\ last.ret = calculate_dataset_item_1024(last.before.light_cache, last.index,
                                                 overflow_checks)

\* a lookup answered from an entry that an earlier call had stored
C1_Witness ==
    /\ last.op = "lookup"
    /\ last.before.full_dataset.is_some
    /\ last.branch = "stored"
    /\ last.ret # Panic

\* C2: kernel determinism.  hash on a context, after any earlier calls and
\* with any part of its full dataset filled, writes the same digest for a
\* header as hash on a freshly built context of the same kind.
C2_KernelDeterminism ==
    last.op = "hash"
    => last.ret = hash(Context_new(last.before.full_dataset.is_some), last.header,
                       overflow_checks).ret

\* a hash that returned a digest on a context with a partly filled dataset
C2_Witness ==
    /\ last.op = "hash"
    /\ last.ret # Panic
    /\ last.before.full_dataset.is_some
    /\ \E i \in DOMAIN Items(last.before) : Items(last.before)[i] # Hash1024_new
    /\ \E i \in DOMAIN Items(last.before) : Items(last.before)[i] = Hash1024_new

\* C3: a lookup with an index at or past FULL_DATASET_NUM_ITEMS panics,
\* with and without a full dataset.
C3_OutOfRangePanics ==
    (last.op = "lookup" /\ last.index >= FULL_DATASET_NUM_ITEMS) => last.ret = Panic

\* the low n bytes of an exact result: its value modulo 2^(8n)
Wrap(exact, n) == SubSeq(exact, 1, n)

\* C4: fnv1(u, v) is ((u * 0x01000193) mod 2^32) XOR v and the multiply-add
\* is (fetch0 * fetch1 + fetch2) mod 2^64 for all operands; neither panics.
C4_WrapIsSilent ==
    /\ fnv.op = "fnv1" => fnv.ret = XorLE(Wrap(MulFull(fnv.u, FNV_PRIME), 4), fnv.v)
    /\ fnv.op = "muladd"
       => fnv.ret = Wrap(AddFull(Wrap(MulFull(fnv.u, fnv.v), 8), fnv.w), 8)

\* the cSHAKE256("ProofOfWorkHash") state after absorbing pre_pow_hash ||
\* timestamp || 32 zero bytes || nonce: words 0..3, 4 and 9 of the initial state
AbsorbedState(pre_pow_hash, timestamp, nonce) ==
    XorWord(XorWord(XorLE(SubSeq(INITIAL_STATE, 1, 32), pre_pow_hash)
                    \o SubSeq(INITIAL_STATE, 33, 200), 4, timestamp), 9, nonce)

\* C5: finalize_with_nonce returns the first four words of Keccak-f[1600]
\* applied to the absorbed state (the first 32 bytes of the cSHAKE256 output).
C5_PowHashIsCShake ==
    pow.op = "pow"
    => pow.ret = SubSeq(f1600(AbsorbedState(pow.pre_pow_hash, pow.timestamp, pow.nonce)),
                        1, 4 * SIZE_U64)

\* C6: Context::new(full) builds the whole light cache for both values of
\* full; the context has a full dataset exactly when full is true, and then
\* it has FULL_DATASET_NUM_ITEMS entries, all of them zero.
C6_ContextNew ==
    last.op = "new"
    => /\ Len(context.light_cache) = LIGHT_CACHE_NUM_ITEMS
       /\ \A i \in DOMAIN context.light_cache : Len(context.light_cache[i]) = 64
       /\ context.light_cache = Context_new(~last.full).light_cache
       /\ context.full_dataset.is_some <=> last.full
       /\ last.full => /\ Len(Items(context)) = FULL_DATASET_NUM_ITEMS
                       /\ \A i \in DOMAIN Items(context) : Items(context)[i] = Zeros(128)
       /\ ~last.full => context.full_dataset = None

\* a context just built with a full dataset
C6_Witness ==
    /\ last.op = "new"
    /\ last.full
    /\ context.full_dataset.is_some
    /\ Len(context.light_cache) = LIGHT_CACHE_NUM_ITEMS

\* C7: every entry of the full dataset is all-zero or the derived item of
\* its index; a lookup changes no entry but the one it looks up; and a
\* lookup of an entry whose first 64-bit word is non-zero does not write it
\* (it takes the stored branch), nor does a hash change such an entry.
C7_DatasetInvariant ==
    (phase = "ready" /\ context.full_dataset.is_some)
    => /\ \A i \in DOMAIN Items(context) :
            \/ Items(context)[i] = Hash1024_new
            \/ Items(context)[i] = calculate_dataset_item_1024(context.light_cache, i - 1,
                                                               overflow_checks)
       /\ (last.op = "lookup" /\ last.index < FULL_DATASET_NUM_ITEMS)
          => /\ \A i \in DOMAIN Items(context) :
                  i # last.index + 1 => Items(context)[i] = Items(last.before)[i]
             /\ ~FirstWordZero(Items(last.before)[last.index + 1])
                => last.branch = "stored" /\ context = last.before
       /\ last.op = "hash"
          => \A i \in DOMAIN Items(context) :
                ~FirstWordZero(Items(last.before)[i])
                => Items(context)[i] = Items(last.before)[i]

\* a lookup of a filled entry, next to another filled and an unfilled one
C7_Witness ==
    /\ last.op = "lookup"
    /\ last.before.full_dataset.is_some
    /\ last.index < FULL_DATASET_NUM_ITEMS
    /\ ~FirstWordZero(Items(last.before)[last.index + 1])
    /\ \E i \in DOMAIN Items(context) : i # last.index + 1 /\ Items(context)[i] # Hash1024_new
    /\ \E i \in DOMAIN Items(context) : Items(context)[i] = Hash1024_new

\* C8: no lookup or hash changes the light cache, with or without a full
\* dataset; without one, a lookup recomputes the item and leaves the whole
\* context as it was.
C8_LightCacheReadOnly ==
    /\ last.op \in {"lookup", "hash"}
       => /\ context.light_cache = last.before.light_cache
          /\ context.light_cache = build_light_cache
    /\ (last.op = "lookup" /\ ~last.before.full_dataset.is_some)
       => /\ context = last.before
          /\ last.branch = "recompute"
          /\ last.ret = calculate_dataset_item_1024(last.before.light_cache, last.index,
                                                    overflow_checks)

\* a lookup that returned an item on a context without a full dataset
C8_Witness ==
    /\ last.op = "lookup"
    /\ ~last.before.full_dataset.is_some
    /\ last.ret # Panic

\* the derived item of the last lookup's index
LastDerived ==
    calculate_dataset_item_1024(last.before.light_cache, last.index, overflow_checks)

\* C9: for an index whose derived item has a zero first 64-bit word, every
\* lookup on a context with a full dataset takes the derive-and-store branch
\* and returns the derived item.
C9_ZeroSentinel ==
    (last.op = "lookup" /\ last.before.full_dataset.is_some
     /\ last.index < FULL_DATASET_NUM_ITEMS
     /\ LastDerived # Panic /\ FirstWordZero(LastDerived))
    => last.branch = "fill" /\ last.ret = LastDerived

\* a lookup of such an index whose entry already held the derived item
C9_Witness ==
    /\ last.op = "lookup"
    /\ last.before.full_dataset.is_some
    /\ last.index < FULL_DATASET_NUM_ITEMS
    /\ LastDerived # Panic
    /\ FirstWordZero(LastDerived)
    /\ Items(last.before)[last.index + 1] = LastDerived
    /\ last.branch = "fill"

\* C10: with lookups interleaved on one shared full dataset and whole-entry
\* stores atomic, every lookup that returns has returned the derived item of
\* its index, and every entry is all-zero or the derived item of its index.
C10_RaceIsBenign ==
    /\ \A w \in DOMAIN workers :
          workers[w].pc = "done"
          => workers[w].ret = calculate_dataset_item_1024(context.light_cache,
                                                          workers[w].index, overflow_checks)
    /\ \A i \in DOMAIN Items(context) :
          \/ Items(context)[i] = Hash1024_new
          \/ Items(context)[i] = calculate_dataset_item_1024(context.light_cache, i - 1,
                                                             overflow_checks)

\* a lookup that lost the race (it stored over an entry another thread had
\* filled since its test) and has returned
C10_Witness ==
    \E w \in DOMAIN workers : workers[w].pc = "done" /\ workers[w].lost

\* the number of round steps a finished build_light_cache has made
AllSteps == LIGHT_CACHE_ROUNDS * LIGHT_CACHE_NUM_ITEMS

\* the indices a step at index i must read, from the cache as it is
StepV(cache, i) == ModLE(get_as_u32(cache[i + 1], 0), LIGHT_CACHE_NUM_ITEMS)
StepW(i) == IF i = 0 THEN LIGHT_CACHE_NUM_ITEMS - 1 ELSE i - 1

\* C11: build_light_cache makes LIGHT_CACHE_ROUNDS passes, each visiting
\* the indices in increasing order; step i replaces cache[i], and nothing
\* else, by keccak(cache[v] XOR cache[w]) with v the first u32 of cache[i]
\* mod LIGHT_CACHE_NUM_ITEMS and w = LIGHT_CACHE_NUM_ITEMS - 1 for i = 0,
\* i - 1 otherwise; the cache it reads is the one in place: this pass's new
\* values below i, the values the pass started with from i on.  The cache
\* of the finished construction is the one Context::new returns.
C11_LightCachePasses ==
    /\ \A k \in 1..Len(build.order) :
          build.order[k] = <<(k - 1) \div LIGHT_CACHE_NUM_ITEMS,
                             (k - 1) % LIGHT_CACHE_NUM_ITEMS>>
    /\ Len(build.order) <= AllSteps
    /\ build.pc \in {"alloc", "done"} => Len(build.order) = AllSteps
    /\ Len(build.order) > 0
       => /\ context.light_cache =
                 [build.step.before EXCEPT ![build.step.i + 1] =
                     keccak(XorLE(build.step.before[StepV(build.step.before, build.step.i) + 1],
                                  build.step.before[StepW(build.step.i) + 1]))]
          /\ \A j \in 0..(LIGHT_CACHE_NUM_ITEMS - 1) :
                build.step.before[j + 1] = IF j < build.step.i
                                           THEN build.step.written[j + 1]
                                           ELSE build.step.pass_start[j + 1]
    /\ build.pc = "done" => context = Context_new(build.full)

\* a finished construction whose last step read, at w, a value that its own
\* pass had already replaced
C11_Witness ==
    /\ build.pc = "done"
    /\ Len(build.order) = AllSteps
    /\ build.step.round = LIGHT_CACHE_ROUNDS - 1
    /\ build.step.i = LIGHT_CACHE_NUM_ITEMS - 1
    /\ StepW(build.step.i) < build.step.i
    /\ build.step.before[StepW(build.step.i) + 1]
           # build.step.pass_start[StepW(build.step.i) + 1]

====
